---- MODULE Spec2Model ----
(***************************************************************************)
(* Model of setup.py, the build script of the cgraph package.              *)
(*                                                                         *)
(* The script is a straight-line module body: three Extension(...)         *)
(* constructors (lines 6-8) followed by one call of setup(...) (lines      *)
(* 10-14).  Python strings are modelled as sequences of tokens             *)
(* ('cgraph.dagraph' is <<"cgraph", ".", "dagraph">>), so that prefixes,   *)
(* suffixes and path separators are things the model can take apart.       *)
(*                                                                         *)
(* Two runs of the script are modelled side by side (Runs), each with its  *)
(* own platform, environment and command line, so that statements about    *)
(* "any two runs" are statements about one state.                          *)
(*                                                                         *)
(* The state is the one reached after the four imports of lines 1-4 have   *)
(* succeeded.  distutils and Cython are not part of the repository: the    *)
(* build they perform inside setup() is modelled from the description of   *)
(* the standard build tool (section "The build tool behind setup()").      *)
(***************************************************************************)
EXTENDS Naturals, Sequences, FiniteSets, TLC

VARIABLES
    os_name,    \* per run: os.name, the platform the run is on
    environ,    \* per run: os.environ (never read by the script)
    argv,       \* per run: sys.argv[1:] (never read by the script)
    pc,         \* per run: the statement the interpreter is at
    globals,    \* per run: the module namespace (c_collections, dagraph, iterators)
    calls,      \* per run: the keyword arguments of every setup() call made so far
    dist,       \* per run: the build tool's state while setup() runs
    exc,        \* per run: the exception propagating out of the module body
    status,     \* per run: the outcome of the run once the interpreter exited
    fs          \* the source files present in the checkout the runs work in

vars == <<os_name, environ, argv, pc, globals, calls, dist, exc, status, fs>>

Runs == {"run1", "run2"}

\* Python's None, and the value of a name not yet bound
None == [type |-> "NoneType"]

\* the outcome of a run that reached the end of the script
Ok == [type |-> "ok"]

----------------------------------------------------------------------------
(* Inputs of a run. *)

Platforms == {"posix", "nt"}

Environments == {<<>>, <<"CC=clang">>}

CommandLines == {<<"build_ext">>, <<"build_ext", "--inplace">>}

\* the files a checkout of the repository may hold, as (directory, file name)
SourceFiles ==
    { << <<"cgraph">>, <<m, ".", "pyx">> >> : m \in {"c_collections", "dagraph", "iterators"} }

----------------------------------------------------------------------------
(* Strings and paths. *)

\* os.sep of the platform
sep(os) == IF os = "nt" THEN "\\" ELSE "/"

\* the characters the platform accepts as path separators (os.sep, os.altsep)
IsSep(os, tok) == IF os = "nt" THEN tok \in {"\\", "/"} ELSE tok = "/"

\* a join that forgets the separator: 'cgraph' + 'dagraph.pyx'
os_path_join_concat(os, a, b) == a \o b

\* os.path.join(a, b) for two arguments
os_path_join(os, a, b) ==
    IF b # <<>> /\ IsSep(os, b[1]) THEN b
    ELSE IF a = <<>> \/ IsSep(os, a[Len(a)]) THEN a \o b
    ELSE a \o <<sep(os)>> \o b

\* a string literal 'x.y': x, y identifiers
Dotted(x, y) == <<x, ".", y>>

\* the components a path string names on the platform: the string cut at the
\* separators, empty and '.' components dropped (as the operating system
\* resolves it)
PathParts(os, p) ==
    LET RECURSIVE go(_, _, _)
        keep(parts, cur) ==
            IF cur = <<>> \/ cur = <<".">> THEN parts ELSE Append(parts, cur)
        go(i, parts, cur) ==
            IF i > Len(p) THEN keep(parts, cur)
            ELSE IF IsSep(os, p[i]) THEN go(i + 1, keep(parts, cur), <<>>)
            ELSE go(i + 1, parts, Append(cur, p[i]))
    IN go(1, <<>>, <<>>)

\* name.split('.') of a dotted module name
SplitDots(name) ==
    LET RECURSIVE go(_, _, _)
        go(i, parts, cur) ==
            IF i > Len(name) THEN Append(parts, cur)
            ELSE IF name[i] = "." THEN go(i + 1, Append(parts, cur), <<>>)
            ELSE go(i + 1, parts, Append(cur, name[i]))
    IN go(1, <<>>, <<>>)

\* '.'.join(parts)
JoinDots(parts) ==
    LET RECURSIVE go(_)
        go(i) == IF i > Len(parts) THEN <<>>
                 ELSE IF i = 1 THEN parts[1] \o go(2)
                 ELSE <<".">> \o parts[i] \o go(i + 1)
    IN go(1)

\* the package a dotted module name belongs to: everything before the last dot
PackageOf(name) ==
    LET parts == SplitDots(name) IN JoinDots(SubSeq(parts, 1, Len(parts) - 1))

\* the module's own name: what follows the last dot
ModuleOf(name) == LET parts == SplitDots(name) IN parts[Len(parts)]

----------------------------------------------------------------------------
(* The script, statement by statement. *)

\* distutils.extension.Extension(name, sources): keeps its two arguments
Extension(name, sources) == [name |-> name, sources |-> sources]

\* line 6
c_collections_value(os) ==
    Extension(Dotted("cgraph", "c_collections"),
              <<os_path_join(os, <<"cgraph">>, Dotted("c_collections", "pyx"))>>)

\* line 7 copied from line 6 with only the variable renamed
dagraph_value_copied(os) ==
    Extension(Dotted("cgraph", "c_collections"),
              <<os_path_join(os, <<"cgraph">>, Dotted("c_collections", "pyx"))>>)

\* line 7
dagraph_value(os) ==
    Extension(Dotted("cgraph", "dagraph"),
              <<os_path_join(os, <<"cgraph">>, Dotted("dagraph", "pyx"))>>)

\* line 8
iterators_value(os) ==
    Extension(Dotted("cgraph", "iterators"),
              <<os_path_join(os, <<"cgraph">>, Dotted("iterators", "pyx"))>>)

\* the command name misspelt: {'build': build_ext}
cmdclass_value_wrong_key == ("build" :> "Cython.Distutils.build_ext")

\* line 11: cmdclass = {'build_ext': build_ext}, build_ext being Cython's
cmdclass_value == ("build_ext" :> "Cython.Distutils.build_ext")

\* the list written in another order
ext_modules_value_swapped(g) == <<g["dagraph"], g["c_collections"], g["iterators"]>>

\* line 12: ext_modules = [c_collections, dagraph, iterators]
ext_modules_value(g) == <<g["c_collections"], g["dagraph"], g["iterators"]>>

\* the directory mapped for a package that is not the extensions' package
package_dir_value_other == (<<"graph">> :> <<".", "/", "cgraph">>)

\* line 13: package_dir = {'cgraph': './cgraph'}
package_dir_value == (<<"cgraph">> :> <<".", "/", "cgraph">>)

\* line 14: packages = ['cgraph']
packages_value == << <<"cgraph">> >>

\* a script that takes the package directory from the command line
SetupKwargsFromArgv(r) ==
    [cmdclass    |-> cmdclass_value,
     ext_modules |-> ext_modules_value(globals[r]),
     package_dir |-> IF Len(argv[r]) > 1 THEN (<<"cgraph">> :> <<".">>)
                     ELSE package_dir_value,
     packages    |-> packages_value]

\* lines 10-14: the keyword arguments of the setup() call made by run r
SetupKwargs(r) ==
    [cmdclass    |-> cmdclass_value,
     ext_modules |-> ext_modules_value(globals[r]),
     package_dir |-> package_dir_value,
     packages    |-> packages_value]

\* a module body that calls setup() again after it returned
SuccessorAgain(stmt) ==
    CASE stmt = "L6"  -> "L7"
      [] stmt = "L7"  -> "L8"
      [] stmt = "L8"  -> "L10"
      [] stmt = "L10" -> "L10"

\* the order of the statements of the module body: lines 6, 7, 8, then the
\* call of lines 10-14, then the end of the file
Successor(stmt) ==
    CASE stmt = "L6"  -> "L7"
      [] stmt = "L7"  -> "L8"
      [] stmt = "L8"  -> "L10"
      [] stmt = "L10" -> "end"

\* a module body that wraps setup() in try/except and carries on
Swallowed(e) == Ok

\* what the module body does with an exception raised by setup(): there is no
\* try statement around lines 10-14, so it leaves the script as it is
Unhandled(e) == e

----------------------------------------------------------------------------
(* The build tool behind setup(): the build_ext command over ext_modules. *)

DefaultBuildExt == "distutils.command.build_ext.build_ext"

\* the class that runs command cmd: the cmdclass entry when there is one
CommandClass(kw, cmd) ==
    IF cmd \in DOMAIN kw.cmdclass THEN kw.cmdclass[cmd] ELSE DefaultBuildExt

\* the suffix of a file name: the token after its last dot
Suffix(path) == IF Len(path) >= 2 /\ path[Len(path) - 1] = "." THEN path[Len(path)] ELSE ""

\* the compiler the tool runs
Compiler(env) == IF env = <<>> THEN "cc" ELSE "clang"

\* where the compiled module of ext goes
ExtFullPath(os, args, kw, ext) ==
    LET package  == PackageOf(ext.name)
        filename == <<ModuleOf(ext.name)[1], ".", IF os = "nt" THEN "pyd" ELSE "so">>
        inplace  == \E i \in 1..Len(args) : args[i] = "--inplace"
        pkgpath  == IF package \in DOMAIN kw.package_dir THEN kw.package_dir[package]
                    ELSE package
    IN IF inplace THEN os_path_join(os, pkgpath, filename)
       ELSE os_path_join(os, os_path_join(os, <<"build">>, package), filename)

\* the outcome of building one extension: every source must exist and be of
\* a type the command class knows; then the compiler decides
BuildResult(os, files, builder, ext, cc_ok) ==
    IF \E i \in 1..Len(ext.sources) : PathParts(os, ext.sources[i]) \notin files
        THEN "missing_source"
    ELSE IF \E i \in 1..Len(ext.sources) :
                Suffix(ext.sources[i]) = "pyx" /\ builder = DefaultBuildExt
        THEN "unknown_file_type"
    ELSE IF cc_ok THEN "built"
    ELSE "compile_error"

----------------------------------------------------------------------------
(* The state machine. *)

Unbound == [c_collections |-> None, dagraph |-> None, iterators |-> None]

Init ==
    /\ os_name \in [Runs -> Platforms]
    /\ environ \in [Runs -> Environments]
    /\ argv \in [Runs -> CommandLines]
    /\ fs \in SUBSET SourceFiles
    /\ pc = [r \in Runs |-> "L6"]
    /\ globals = [r \in Runs |-> Unbound]
    /\ calls = [r \in Runs |-> <<>>]
    /\ dist = [r \in Runs |-> [todo |-> <<>>, log |-> <<>>]]
    /\ exc = [r \in Runs |-> None]
    /\ status = [r \in Runs |-> None]

inputs == <<os_name, environ, argv, fs>>

\* line 6: c_collections = Extension(...)
Line6(r) ==
    /\ pc[r] = "L6"
    /\ globals' = [globals EXCEPT ![r].c_collections = c_collections_value(os_name[r])]
    /\ pc' = [pc EXCEPT ![r] = Successor("L6")]
    /\ UNCHANGED <<inputs, calls, dist, exc, status>>

\* line 7: dagraph = Extension(...)
Line7(r) ==
    /\ pc[r] = "L7"
    /\ globals' = [globals EXCEPT ![r].dagraph = dagraph_value(os_name[r])]
    /\ pc' = [pc EXCEPT ![r] = Successor("L7")]
    /\ UNCHANGED <<inputs, calls, dist, exc, status>>

\* line 8: iterators = Extension(...)
Line8(r) ==
    /\ pc[r] = "L8"
    /\ globals' = [globals EXCEPT ![r].iterators = iterators_value(os_name[r])]
    /\ pc' = [pc EXCEPT ![r] = Successor("L8")]
    /\ UNCHANGED <<inputs, calls, dist, exc, status>>

\* lines 10-14: setup(...) is entered with the keyword arguments
CallSetup(r) ==
    /\ pc[r] = "L10"
    /\ calls' = [calls EXCEPT ![r] = Append(@, SetupKwargs(r))]
    /\ dist' = [dist EXCEPT ![r] = [todo |-> SetupKwargs(r).ext_modules, log |-> <<>>]]
    /\ pc' = [pc EXCEPT ![r] = "setup"]
    /\ UNCHANGED <<inputs, globals, exc, status>>

\* inside setup(): the next extension of the list is built, or its build fails
\* and the error is raised out of setup()
BuildExtension(r) ==
    /\ pc[r] = "setup"
    /\ dist[r].todo # <<>>
    /\ \E cc_ok \in BOOLEAN :
          LET kw      == calls[r][Len(calls[r])]
              ext     == Head(dist[r].todo)
              builder == CommandClass(kw, "build_ext")
              result  == BuildResult(os_name[r], fs, builder, ext, cc_ok)
              entry   == [name     |-> ext.name,
                          sources  |-> ext.sources,
                          builder  |-> builder,
                          compiler |-> Compiler(environ[r]),
                          result   |-> result,
                          target   |-> IF result = "built"
                                       THEN ExtFullPath(os_name[r], argv[r], kw, ext)
                                       ELSE None]
          IN IF result = "built"
             THEN /\ dist' = [dist EXCEPT ![r] = [todo |-> Tail(@.todo),
                                                   log  |-> Append(@.log, entry)]]
                  /\ UNCHANGED <<pc, exc>>
             ELSE /\ dist' = [dist EXCEPT ![r].log = Append(@, entry)]
                  /\ exc' = [exc EXCEPT ![r] = [type |-> "error", error |-> result, ext |-> ext.name]]
                  /\ pc' = [pc EXCEPT ![r] = "raise"]
    /\ UNCHANGED <<inputs, globals, calls, status>>

\* setup() returns once every extension is built
SetupReturns(r) ==
    /\ pc[r] = "setup"
    /\ dist[r].todo = <<>>
    /\ pc' = [pc EXCEPT ![r] = Successor("L10")]
    /\ UNCHANGED <<inputs, globals, calls, dist, exc, status>>

\* the end of the file is reached: the interpreter exits normally
ModuleEnd(r) ==
    /\ pc[r] = "end"
    /\ status' = [status EXCEPT ![r] = Ok]
    /\ pc' = [pc EXCEPT ![r] = "exit"]
    /\ UNCHANGED <<inputs, globals, calls, dist, exc>>

\* an exception raised by setup() reaches the top of the module body: the
\* interpreter exits with it
Uncaught(r) ==
    /\ pc[r] = "raise"
    /\ status' = [status EXCEPT ![r] = Unhandled(exc[r])]
    /\ pc' = [pc EXCEPT ![r] = "exit"]
    /\ UNCHANGED <<inputs, globals, calls, dist, exc>>

Next ==
    \E r \in Runs :
        \/ Line6(r)
        \/ Line7(r)
        \/ Line8(r)
        \/ CallSetup(r)
        \/ BuildExtension(r)
        \/ SetupReturns(r)
        \/ ModuleEnd(r)
        \/ Uncaught(r)

Spec == Init /\ [][Next]_vars

----------------------------------------------------------------------------
(* Properties. *)

\* the runs that have entered setup(), and what the last call was given
Called(r) == calls[r] # <<>>
Config(r) == calls[r][Len(calls[r])]

ExtNames == {Dotted("cgraph", m) : m \in {"c_collections", "dagraph", "iterators"}}

\* the path 'cgraph/<m>.pyx' as written in the specification
SlashPath(m) == <<"cgraph", "/", m, ".", "pyx">>

Built(r) == {i \in 1..Len(dist[r].log) : dist[r].log[i].result = "built"}
Failed(r) == {i \in 1..Len(dist[r].log) : dist[r].log[i].result # "built"}

\* C1: the ext_modules passed to setup() are exactly cgraph.c_collections,
\* cgraph.dagraph and cgraph.iterators: three entries, no duplicates, none
\* missing, no other.
C1_ExtModulesExact ==
    \A r \in Runs : \A c \in 1..Len(calls[r]) :
        LET exts == calls[r][c].ext_modules IN
        /\ Len(exts) = 3
        /\ \A i \in 1..Len(exts) : exts[i] # None
        /\ {exts[i].name : i \in 1..Len(exts)} = ExtNames
        /\ \A i, j \in 1..Len(exts) : exts[i].name = exts[j].name => i = j

C1_Witness == \E r \in Runs : Called(r) /\ Len(Config(r).ext_modules) = 3

\* C2: every declared extension has exactly one source; the source of
\* cgraph.X is the path cgraph/X.pyx (the file X.pyx in directory cgraph,
\* spelt with '/' wherever '/' is the platform's separator); no two
\* extensions share a source, and the inputs are exactly the three .pyx files.
C2_OneSourceEach ==
    \A r \in Runs : \A c \in 1..Len(calls[r]) :
        LET exts == calls[r][c].ext_modules
            os   == os_name[r]
            file(i) == PathParts(os, exts[i].sources[1])
        IN
        /\ \A i \in 1..Len(exts) :
              /\ Len(exts[i].sources) = 1
              /\ PackageOf(exts[i].name) = <<"cgraph">>
              /\ file(i) = PathParts(os, SlashPath(ModuleOf(exts[i].name)[1]))
              /\ file(i) = << <<"cgraph">>, ModuleOf(exts[i].name) \o <<".", "pyx">> >>
              /\ sep(os) = "/" => exts[i].sources[1] = SlashPath(ModuleOf(exts[i].name)[1])
        /\ \A i, j \in 1..Len(exts) : file(i) = file(j) => i = j
        /\ {file(i) : i \in 1..Len(exts)} = SourceFiles

C2_Witness ==
    \E r1, r2 \in Runs :
        /\ Called(r1) /\ os_name[r1] = "posix"
        /\ Called(r2) /\ os_name[r2] = "nt"
        /\ Config(r2).ext_modules[2].sources = << <<"cgraph", "\\", "dagraph", ".", "pyx">> >>

\* C3: every extension is in package cgraph, cgraph is the only package
\* listed, package_dir maps cgraph and only cgraph, to ./cgraph, so every
\* extension's package is declared and mapped; and every module that has
\* been compiled is placed in a directory named cgraph.
C3_UnderCgraph ==
    \A r \in Runs :
        /\ \A c \in 1..Len(calls[r]) :
              LET kw == calls[r][c] IN
              /\ kw.packages = << <<"cgraph">> >>
              /\ DOMAIN kw.package_dir = {<<"cgraph">>}
              /\ kw.package_dir[<<"cgraph">>] = <<".", "/", "cgraph">>
              /\ \A i \in 1..Len(kw.ext_modules) :
                    LET pkg == PackageOf(kw.ext_modules[i].name) IN
                    /\ pkg = <<"cgraph">>
                    /\ \E k \in 1..Len(kw.packages) : kw.packages[k] = pkg
                    /\ pkg \in DOMAIN kw.package_dir
        /\ \A i \in Built(r) :
              LET parts == PathParts(os_name[r], dist[r].log[i].target) IN
              /\ Len(parts) >= 2
              /\ parts[Len(parts) - 1] = <<"cgraph">>
              /\ parts[Len(parts)][1] = ModuleOf(dist[r].log[i].name)[1]

C3_Witness ==
    \E r1, r2 \in Runs :
        /\ Len(argv[r1]) = 1 /\ Len(argv[r2]) = 2
        /\ Cardinality(Built(r1)) = 3 /\ Cardinality(Built(r2)) = 3

\* the statements of run r that can be executed next
EnabledSteps(r) ==
    {a \in {"Line6", "Line7", "Line8", "CallSetup", "BuildExtension",
             "SetupReturns", "ModuleEnd", "Uncaught"} :
        \/ a = "Line6" /\ ENABLED Line6(r)
        \/ a = "Line7" /\ ENABLED Line7(r)
        \/ a = "Line8" /\ ENABLED Line8(r)
        \/ a = "CallSetup" /\ ENABLED CallSetup(r)
        \/ a = "BuildExtension" /\ ENABLED BuildExtension(r)
        \/ a = "SetupReturns" /\ ENABLED SetupReturns(r)
        \/ a = "ModuleEnd" /\ ENABLED ModuleEnd(r)
        \/ a = "Uncaught" /\ ENABLED Uncaught(r)}

\* C4: a run is one sequential execution: at every point at most one step of
\* the run can be taken; the three Extension objects exist before setup() is
\* entered; setup() is called at most once, and exactly once in a run that
\* has ended; nothing is built outside the call; once setup() has returned
\* the only step left is the end of the script, after which the run does
\* nothing more.
C4_Sequential ==
    \A r \in Runs :
        /\ Cardinality(EnabledSteps(r)) <= 1
        /\ Len(calls[r]) <= 1
        /\ pc[r] \in {"L6", "L7", "L8", "L10"} =>
              /\ calls[r] = <<>>
              /\ dist[r] = [todo |-> <<>>, log |-> <<>>]
        /\ Called(r) =>
              /\ globals[r].c_collections # None
              /\ globals[r].dagraph # None
              /\ globals[r].iterators # None
              /\ Config(r).ext_modules =
                    <<globals[r].c_collections, globals[r].dagraph, globals[r].iterators>>
        /\ pc[r] = "end" => EnabledSteps(r) = {"ModuleEnd"} /\ Len(calls[r]) = 1
        /\ pc[r] = "exit" => EnabledSteps(r) = {} /\ Len(calls[r]) = 1
        /\ (pc[r] = "exit") <=> (status[r] # None)

C4_Witness ==
    \E r1, r2 \in Runs :
        /\ r1 # r2
        /\ pc[r1] = "exit" /\ status[r1] = Ok
        /\ pc[r2] = "L8"

\* C5: the script handles no error: when the build of an extension fails, the
\* error raised out of setup() is the outcome of the run, unchanged; the
\* failed build is not tried again and nothing is built after it; and a run
\* ends successfully only if all three declared sources exist and all three
\* extensions were built.
C5_FailurePropagates ==
    \A r \in Runs :
        /\ \A i \in Failed(r) :
              /\ i = Len(dist[r].log)
              /\ pc[r] \in {"raise", "exit"}
              /\ exc[r] = [type  |-> "error",
                           error |-> dist[r].log[i].result,
                           ext   |-> dist[r].log[i].name]
              /\ pc[r] = "exit" => status[r] = exc[r]
        /\ \A i, j \in 1..Len(dist[r].log) :
              dist[r].log[i].name = dist[r].log[j].name => i = j
        /\ exc[r] # None => Failed(r) # {}
        /\ pc[r] = "exit" => status[r] = IF Failed(r) = {} THEN Ok ELSE exc[r]
        /\ status[r] = Ok =>
              /\ Cardinality(Built(r)) = 3
              /\ Called(r)
              /\ \A i \in 1..Len(Config(r).ext_modules) :
                    \A k \in 1..Len(Config(r).ext_modules[i].sources) :
                        PathParts(os_name[r], Config(r).ext_modules[i].sources[k]) \in fs
              /\ fs = SourceFiles

C5_Witness ==
    \E r1, r2 \in Runs :
        /\ pc[r1] = "exit" /\ status[r1] # Ok
        /\ status[r1].error = "missing_source"
        /\ status[r1].ext = Dotted("cgraph", "dagraph")
        /\ pc[r2] = "exit" /\ status[r2] # Ok
        /\ status[r2].error = "compile_error"

\* C6: what the script passes to setup() depends on nothing but the
\* platform: two runs on the same platform pass the same configuration,
\* whatever their environments and command lines are.
C6_SameConfiguration ==
    \A r1, r2 \in Runs :
        (Called(r1) /\ Called(r2) /\ os_name[r1] = os_name[r2]) =>
            Config(r1) = Config(r2)

C6_Witness ==
    \E r1, r2 \in Runs :
        /\ Called(r1) /\ Called(r2)
        /\ os_name[r1] = os_name[r2]
        /\ environ[r1] # environ[r2]
        /\ argv[r1] # argv[r2]

\* C7: build_ext is the only command class overridden, and by Cython's; every
\* declared extension has a .pyx file as its only source; and every
\* extension the build has taken up was handled by Cython's build_ext, none
\* by the build_ext of distutils.
C7_CythonBuildsAll ==
    \A r \in Runs :
        /\ \A c \in 1..Len(calls[r]) :
              /\ DOMAIN calls[r][c].cmdclass = {"build_ext"}
              /\ calls[r][c].cmdclass["build_ext"] = "Cython.Distutils.build_ext"
              /\ \A i \in 1..Len(calls[r][c].ext_modules) :
                    LET ext == calls[r][c].ext_modules[i] IN
                    /\ Len(ext.sources) = 1
                    /\ Suffix(ext.sources[1]) = "pyx"
        /\ \A i \in 1..Len(dist[r].log) :
              /\ dist[r].log[i].builder = "Cython.Distutils.build_ext"
              /\ dist[r].log[i].builder # DefaultBuildExt
              /\ dist[r].log[i].result # "unknown_file_type"

C7_Witness ==
    \E r \in Runs : Cardinality(Built(r)) = 3 /\ Len(dist[r].log) = 3

BuildOrder == <<Dotted("cgraph", "c_collections"), Dotted("cgraph", "dagraph"),
                Dotted("cgraph", "iterators")>>

\* C8: ext_modules is in the order c_collections, dagraph, iterators; the
\* build takes the extensions up in that order, one after the other; it
\* stops at the first one that fails, and the later ones are then never built.
C8_ListOrder ==
    \A r \in Runs :
        /\ \A c \in 1..Len(calls[r]) :
              /\ Len(calls[r][c].ext_modules) = 3
              /\ \A i \in 1..3 : calls[r][c].ext_modules[i].name = BuildOrder[i]
        /\ Len(dist[r].log) <= 3
        /\ \A i \in 1..Len(dist[r].log) : dist[r].log[i].name = BuildOrder[i]
        /\ \A i \in Failed(r) :
              /\ \A j \in 1..(i - 1) : j \in Built(r)
              /\ Len(dist[r].log) = i
              /\ Len(dist[r].todo) = 3 - i + 1
              /\ \A j \in (i + 1)..3 :
                    \A k \in 1..Len(dist[r].log) : dist[r].log[k].name # BuildOrder[j]

C8_Witness ==
    \E r \in Runs :
        /\ pc[r] = "exit"
        /\ Len(dist[r].log) = 2
        /\ Built(r) = {1} /\ Failed(r) = {2}
        /\ dist[r].log[2].name = Dotted("cgraph", "dagraph")

====
